---- MODULE Spec2Model ----
(***************************************************************************)
(* Model of the prune commands of the container CLI:                       *)
(*   - volume prune   (src/cli/command/prune/prune.go, package volume)     *)
(*   - network prune  (src/cli/command/network/prune.go, package network)  *)
(*   - system prune   (src/cli/command/network/prune.go, package system)   *)
(* One behaviour is one invocation of one command.  The remote daemon and  *)
(* standard input are the environment: every remote call draws its reply   *)
(* from Responses, every read of standard input draws a line from Answers. *)
(* `log' is what a fake client and the I/O buffers observe, in order.      *)
(***************************************************************************)
EXTENDS Integers, Sequences, FiniteSets, TLC

VARIABLES cmd, args, options, clientVersion, helperDryRun,
          pc, idx, pruneFuncs, spaceReclaimed, result, log

vars == <<cmd, args, options, clientVersion, helperDryRun,
          pc, idx, pruneFuncs, spaceReclaimed, result, log>>

----------------------------------------------------------------------------
(* Inputs *)

\* most positional arguments given on the command line
MaxArgs == 1

\* positional arguments of the command line
Args == UNION { [1..n -> {"foo"}] : n \in 0..MaxArgs }

\* user-supplied --filter values, as a set of <<key, value>> pairs
Filters == { {}, {<<"label", "a">>}, {<<"dryRun", "false">>} }

\* negotiated API versions, "1.4" is <<1, 4>>
Versions == { <<1, 4>>, <<1, 30>>, <<1, 31>>, <<1, 32>> }

\* lines typed on standard input, one character per element
Answers == { <<"y">>, <<"Y">>, <<"y", "e", "s">>, <<"Y", "E", "S">>,
             <<"n">>, <<"N">>, <<"n", "o">>, <<"y", "o">>, <<>> }

NoErr == ""

\* longest list of deleted identifiers a reply carries
MaxDeleted == 3

Id(i) ==
    CASE i = 1 -> "foo"
      [] i = 2 -> "bar"
      [] i = 3 -> "baz"
      [] OTHER -> "qux"

\* simplePruneFunc's VolumesDeleted, cut or extended to MaxDeleted identifiers
DeletedIds == [i \in 1..MaxDeleted |-> Id(i)]

\* simplePruneFunc's SpaceReclaimed
SimpleSpaceReclaimed == 2000

\* replies of a remote prune endpoint: a report, or an error with the zero report
Responses ==
    { [deleted |-> <<>>, spaceReclaimed |-> 0, err |-> NoErr],
      [deleted |-> DeletedIds, spaceReclaimed |-> SimpleSpaceReclaimed, err |-> NoErr],
      [deleted |-> <<>>, spaceReclaimed |-> 500, err |-> NoErr],
      [deleted |-> <<>>, spaceReclaimed |-> 0, err |-> "error pruning volumes"],
      [deleted |-> <<>>, spaceReclaimed |-> 0, err |-> "connection refused"] }

----------------------------------------------------------------------------
(* Helpers shared by the commands *)

\* cli.NoArgs: the command accepts the arguments iff there are none
NoArgs(a) == Len(a) = 0

UsageError == "accepts no argument"

\* fmt.Sprintf("%v", b) for a bool
FormatBool(b) == IF b THEN "true" ELSE "false"

ToLowerChar(c) ==
    CASE c = "Y" -> "y"
      [] c = "E" -> "e"
      [] c = "S" -> "s"
      [] c = "N" -> "n"
      [] c = "O" -> "o"
      [] OTHER -> c

ToLower(s) == [i \in 1..Len(s) |-> ToLowerChar(s[i])]

\* command.PromptForConfirmation: the value returned for the line read
IsAffirmative(answer) == ToLower(answer) \in { <<"y">>, <<"y", "e", "s">> }

\* command.PruneFilters: the criteria built from options.filter
PruneFilters(filter) == filter

RECURSIVE compare(_, _, _)
compare(v1, v2, i) ==
    LET max == IF Len(v2) > Len(v1) THEN Len(v2) ELSE Len(v1)
        currInt == IF Len(v1) >= i THEN v1[i] ELSE 0
        otherInt == IF Len(v2) >= i THEN v2[i] ELSE 0
    IN  IF i > max THEN 0
        ELSE IF currInt > otherInt THEN 1
        ELSE IF otherInt > currInt THEN -1
        ELSE compare(v1, v2, i + 1)

LessThanOrEqualTo(v, other) == compare(v, other, 1) <= 0

\* versions.LessThan
LessThan(v, other) == compare(v, other, 1) = -1

APIVersionBuildCache == <<1, 31>>

\* the (spaceReclaimed, output, err) an adapter returns
Ret(spc, output, err) == [spc |-> spc, output |-> output, err |-> err]

\* events of the log
PromptEv(msg) ==
    [ev |-> "prompt", endpoint |-> "", hasFilters |-> FALSE, filters |-> {},
     resp |-> [deleted |-> <<>>, spaceReclaimed |-> 0, err |-> NoErr],
     text |-> msg, label |-> "", bytes |-> 0, dry |-> FALSE]
ReadEv(answer) ==
    [ev |-> "read", endpoint |-> "", hasFilters |-> FALSE, filters |-> {},
     resp |-> [deleted |-> <<>>, spaceReclaimed |-> 0, err |-> NoErr],
     text |-> answer, label |-> "", bytes |-> 0, dry |-> FALSE]
\* a remote call: its criteria, the daemon's reply, what the adapter returned for
\* it, and the dryRun option the adapter ran with
CallEv(endpoint, hasFilters, dry, filters, resp, r) ==
    [ev |-> "call", endpoint |-> endpoint, hasFilters |-> hasFilters, filters |-> filters,
     resp |-> resp, text |-> r.output, label |-> r.err, bytes |-> r.spc, dry |-> dry]
\* fmt.Fprintln(dockerCli.Out(), output): output is a sequence of "\n"-terminated lines
PrintEv(output) ==
    [ev |-> "print", endpoint |-> "", hasFilters |-> FALSE, filters |-> {},
     resp |-> [deleted |-> <<>>, spaceReclaimed |-> 0, err |-> NoErr],
     text |-> output, label |-> "", bytes |-> 0, dry |-> FALSE]
\* fmt.Fprintln(dockerCli.Out(), spaceReclaimedLabel, units.HumanSize(float64(n)))
SummaryEv(label, n) ==
    [ev |-> "summary", endpoint |-> "", hasFilters |-> FALSE, filters |-> {},
     resp |-> [deleted |-> <<>>, spaceReclaimed |-> 0, err |-> NoErr],
     text |-> <<>>, label |-> label, bytes |-> n, dry |-> FALSE]

spaceReclaimedLabel(dryRun) ==
    IF dryRun THEN "Estimated reclaimable space:" ELSE "Total reclaimed space:"

----------------------------------------------------------------------------
(* package volume *)

volume_warning ==
    << "WARNING! This will remove all volumes not used by at least one container.",
       "Are you sure you want to continue?" >>

\* runPrune, lines 90-91
volume_pruneFilters(opts) ==
    PruneFilters(opts.filter) \cup { <<"dryRun", FormatBool(opts.dryRun)>> }

volume_mustConfirmMutant(opts) == ~opts.force

volume_mustConfirmInverted(opts) == ~opts.force /\ opts.dryRun

\* runPrune, line 93: the prompt is shown iff this holds
volume_mustConfirm(opts) == ~opts.force /\ ~opts.dryRun

volume_reportMutant(opts, report) ==
    IF report.err # NoErr THEN Ret(0, <<>>, report.err)
    ELSE IF Len(report.deleted) > 0
         THEN Ret(0,
                  << IF opts.dryRun THEN "Will Delete Volumes:" ELSE "Deleted Volumes:" >>
                      \o report.deleted,
                  NoErr)
         ELSE Ret(0, <<>>, NoErr)

\* runPrune, lines 97-113: the values returned for the reply of VolumesPrune
volume_report(opts, report) ==
    IF report.err # NoErr THEN Ret(0, <<>>, report.err)
    ELSE IF Len(report.deleted) > 0
         THEN Ret(report.spaceReclaimed,
                  << IF opts.dryRun THEN "Will Delete Volumes:" ELSE "Deleted Volumes:" >>
                      \o report.deleted,
                  NoErr)
         ELSE Ret(0, <<>>, NoErr)

\* RunPrune: the options the exported entry point runs with
volume_RunPrune(dryRun, filter) == [force |-> TRUE, dryRun |-> dryRun, filter |-> filter]

volume_RunEMutant(opts, r) ==
    (IF r.output # <<>> THEN <<PrintEv(r.output)>> ELSE <<>>)
       \o <<SummaryEv(spaceReclaimedLabel(opts.dryRun), r.spc)>>

\* NewPruneCommand.RunE, lines 61-73: what the command prints for runPrune's return
volume_RunE(opts, r) ==
    IF r.err # NoErr THEN <<>>
    ELSE (IF r.output # <<>> THEN <<PrintEv(r.output)>> ELSE <<>>)
         \o <<SummaryEv(spaceReclaimedLabel(opts.dryRun), r.spc)>>

----------------------------------------------------------------------------
(* package network *)

network_warning ==
    << "WARNING! This will remove all networks not used by at least one container.",
       "Are you sure you want to continue?" >>

\* runPrune, lines 52-53
network_pruneFilters(opts) ==
    PruneFilters(opts.filter) \cup { <<"dryRun", FormatBool(opts.dryRun)>> }

\* runPrune, line 55
network_mustConfirm(opts) == ~opts.force /\ ~opts.dryRun

\* runPrune, lines 59-74 with RunPrune's `return 0, output, err'
network_report(opts, report) ==
    IF report.err # NoErr THEN Ret(0, <<>>, report.err)
    ELSE IF Len(report.deleted) > 0
         THEN Ret(0,
                  << IF opts.dryRun THEN "Will Delete Networks:" ELSE "Deleted Networks:" >>
                      \o report.deleted,
                  NoErr)
         ELSE Ret(0, <<>>, NoErr)

network_RunPrune(dryRun, filter) == [force |-> TRUE, dryRun |-> dryRun, filter |-> filter]

\* NewPruneCommand.RunE, lines 28-35
network_RunE(opts, r) ==
    IF r.err # NoErr THEN <<>>
    ELSE IF r.output # <<>> THEN <<PrintEv(r.output)>> ELSE <<>>

----------------------------------------------------------------------------
(* The per-resource commands as steps *)

ResourceCmds == {"volume", "network"}

\* the commands built by NewPruneCommand / newPruneCommand
CliCmds == ResourceCmds \cup {"system"}

\* Args: cli.NoArgs, checked before RunE: surplus arguments end the command
\* with a usage error, before any prompt or remote call
command_UsageError ==
    /\ cmd \in CliCmds
    /\ pc = "start"
    /\ ~NoArgs(args)
    /\ pc' = "done"
    /\ result' = UsageError
    /\ UNCHANGED <<cmd, args, options, clientVersion, helperDryRun, idx, pruneFuncs,
                   spaceReclaimed, log>>

mustConfirm(c, opts) ==
    IF c = "volume" THEN volume_mustConfirm(opts) ELSE network_mustConfirm(opts)

warningOf(c) == IF c = "volume" THEN volume_warning ELSE network_warning

\* runPrune up to the remote call: the confirmation gate.  A declined prompt makes
\* runPrune return (0, "", nil), and RunE prints for that return.
resource_Confirm ==
    /\ cmd \in ResourceCmds
    /\ pc = "start"
    /\ NoArgs(args)
    /\ IF mustConfirm(cmd, options)
       THEN \E answer \in Answers :
              LET asked == <<PromptEv(warningOf(cmd)), ReadEv(answer)>>
                  r == Ret(0, <<>>, NoErr)
              IN  IF IsAffirmative(answer)
                  THEN /\ pc' = "call"
                       /\ log' = log \o asked
                       /\ UNCHANGED <<result, spaceReclaimed>>
                  ELSE /\ pc' = "done"
                       /\ result' = r.err
                       /\ spaceReclaimed' = r.spc
                       /\ log' = log \o asked
                                      \o (IF cmd = "volume" THEN volume_RunE(options, r)
                                                            ELSE network_RunE(options, r))
       ELSE /\ pc' = "call"
            /\ UNCHANGED <<log, result, spaceReclaimed>>
    /\ UNCHANGED <<cmd, args, options, clientVersion, helperDryRun, idx, pruneFuncs>>

\* volume runPrune from the remote call on, and RunE's printing
volume_Call ==
    /\ cmd = "volume"
    /\ pc = "call"
    /\ \E report \in Responses :
         LET r == volume_report(options, report)
         IN  /\ log' = log \o <<CallEv("volumes", TRUE, options.dryRun, volume_pruneFilters(options), report, r)>>
                           \o volume_RunE(options, r)
             /\ result' = r.err
             /\ spaceReclaimed' = r.spc
    /\ pc' = "done"
    /\ UNCHANGED <<cmd, args, options, clientVersion, helperDryRun, idx, pruneFuncs>>

\* network runPrune from the remote call on, and RunE's printing
network_Call ==
    /\ cmd = "network"
    /\ pc = "call"
    /\ \E report \in Responses :
         LET r == network_report(options, report)
         IN  /\ log' = log \o <<CallEv("networks", TRUE, options.dryRun, network_pruneFilters(options), report, r)>>
                           \o network_RunE(options, r)
             /\ result' = r.err
             /\ spaceReclaimed' = r.spc
    /\ pc' = "done"
    /\ UNCHANGED <<cmd, args, options, clientVersion, helperDryRun, idx, pruneFuncs>>

----------------------------------------------------------------------------
(* packages container and image: the adapters system prune calls.  Both follow  *)
(* the per-resource adapter pattern of volume and network.                      *)

container_pruneFilters(opts) ==
    PruneFilters(opts.filter) \cup { <<"dryRun", FormatBool(opts.dryRun)>> }

container_report(opts, report) ==
    IF report.err # NoErr THEN Ret(0, <<>>, report.err)
    ELSE IF Len(report.deleted) > 0
         THEN Ret(report.spaceReclaimed,
                  << IF opts.dryRun THEN "Will Delete Containers:" ELSE "Deleted Containers:" >>
                      \o report.deleted,
                  NoErr)
         ELSE Ret(0, <<>>, NoErr)

container_RunPrune(dryRun, filter) == [force |-> TRUE, dryRun |-> dryRun, filter |-> filter]

image_pruneFilters(opts) ==
    PruneFilters(opts.filter) \cup { <<"dryRun", FormatBool(opts.dryRun)>> }

image_report(opts, report) ==
    IF report.err # NoErr THEN Ret(0, <<>>, report.err)
    ELSE IF Len(report.deleted) > 0
         THEN Ret(report.spaceReclaimed,
                  << IF opts.dryRun THEN "Will Delete Images:" ELSE "Deleted Images:" >>
                      \o report.deleted,
                  NoErr)
         ELSE Ret(0, <<>>, NoErr)

image_RunPrune(all, dryRun, filter) ==
    [force |-> TRUE, all |-> all, dryRun |-> dryRun, filter |-> filter]

----------------------------------------------------------------------------
(* package system *)

\* The helpers below receive dryRun and call <kind>.RunPrune(dockerCli, filter)
\* without it, while RunPrune is declared with a dryRun parameter: the call does
\* not type-check.  helperDryRun is the outcome of a run: the adapter gets the
\* zero value ("dropped", the two-argument RunPrune the calls are written for) or
\* the caller's flag ("forwarded", as the well-typed callers of package prune do).
HelperOutcomes == {"dropped", "forwarded"}

BoundDryRun(dryRun) == IF helperDryRun = "forwarded" THEN dryRun ELSE FALSE

\* runContainerPrune: the options the container adapter runs with
runContainerPrune(dryRun, filter) == container_RunPrune(BoundDryRun(dryRun), filter)

\* runNetworkPrune
runNetworkPrune(dryRun, filter) == network_RunPrune(BoundDryRun(dryRun), filter)

\* runVolumePrune
runVolumePrune(dryRun, filter) == volume_RunPrune(BoundDryRun(dryRun), filter)

\* runImagePrune
runImagePrune(all, dryRun, filter) == image_RunPrune(all, BoundDryRun(dryRun), filter)

\* runBuildCachePrune, and the inlined copy at the end of runPrune:
\* what is returned for the reply of BuildCachePrune(ctx), which takes no criteria
runBuildCachePrune(report) ==
    IF report.err # NoErr THEN Ret(0, <<>>, report.err)
    ELSE Ret(report.spaceReclaimed, <<>>, NoErr)

versionGateMutant(opts, version) ==
    IF LessThanOrEqualTo(version, APIVersionBuildCache)
    THEN [opts EXCEPT !.pruneBuildCache = FALSE]
    ELSE opts

\* runPrune, lines 175-177
versionGate(opts, version) ==
    IF LessThan(version, APIVersionBuildCache)
    THEN [opts EXCEPT !.pruneBuildCache = FALSE]
    ELSE opts

\* runPrune, line 178
system_mustConfirm(opts) == ~opts.force /\ ~opts.dryRun

warningsMutant(opts) ==
    << "all stopped containers",
       "all networks not used by at least one container" >>
    \o << IF opts.all
          THEN "all images without at least one container associated to them"
          ELSE "all dangling images" >>
    \o (IF opts.pruneBuildCache THEN << "all build cache" >> ELSE <<>>)

\* confirmationMessage, lines 238-252
warnings(opts) ==
    << "all stopped containers",
       "all networks not used by at least one container" >>
    \o (IF opts.pruneVolumes
        THEN << "all volumes not used by at least one container" >> ELSE <<>>)
    \o << IF opts.all
          THEN "all images without at least one container associated to them"
          ELSE "all dangling images" >>
    \o (IF opts.pruneBuildCache THEN << "all build cache" >> ELSE <<>>)

\* confirmationTemplate executed on the warnings; a line is <<indent, text>>,
\* one "        - <warning>" line per warning
confirmationMessage(opts) ==
    << <<"", "WARNING! This will remove:">> >>
    \o [i \in 1..Len(warnings(opts)) |-> <<"        - ", warnings(opts)[i]>>]
    \o << <<"", "Are you sure you want to continue?">> >>

\* runPrune, lines 184-194
buildPruneFuncs(opts) ==
    << "runContainerPrune", "runNetworkPrune" >>
    \o (IF opts.pruneVolumes THEN << "runVolumePrune" >> ELSE <<>>)
    \o << "imagePrune" >>
    \o (IF opts.pruneBuildCache THEN << "runBuildCachePrune" >> ELSE <<>>)

\* pruneFn(dockerCli, options.dryRun, options.filter): the remote call it makes
\* and what it returns for the reply
pruneFn(fn, opts, report) ==
    CASE fn = "runContainerPrune" ->
           LET o == runContainerPrune(opts.dryRun, opts.filter)
               r == container_report(o, report)
           IN  [call |-> CallEv("containers", TRUE, o.dryRun, container_pruneFilters(o), report, r), ret |-> r]
      [] fn = "runNetworkPrune" ->
           LET o == runNetworkPrune(opts.dryRun, opts.filter)
               r == network_report(o, report)
           IN  [call |-> CallEv("networks", TRUE, o.dryRun, network_pruneFilters(o), report, r), ret |-> r]
      [] fn = "runVolumePrune" ->
           LET o == runVolumePrune(opts.dryRun, opts.filter)
               r == volume_report(o, report)
           IN  [call |-> CallEv("volumes", TRUE, o.dryRun, volume_pruneFilters(o), report, r), ret |-> r]
      [] fn = "imagePrune" ->
           LET o == runImagePrune(opts.all, opts.dryRun, opts.filter)
               r == image_report(o, report)
           IN  [call |-> CallEv("images", TRUE, o.dryRun, image_pruneFilters(o), report, r), ret |-> r]
      [] fn = "runBuildCachePrune" ->
           LET r == runBuildCachePrune(report)
           IN  [call |-> CallEv("buildcache", FALSE, FALSE, {}, report, r), ret |-> r]

stageFailedMutant(r) == FALSE

\* runPrune, line 199: `if err != nil { return err }'
stageFailed(r) == r.err # NoErr

\* runPrune, lines 225-229
system_summary(opts, total) == SummaryEv(spaceReclaimedLabel(opts.dryRun), total)

\* runPrune, lines 175-194: version gate, confirmation gate, list of stages
system_Confirm ==
    /\ cmd = "system"
    /\ pc = "start"
    /\ NoArgs(args)
    /\ LET gated == versionGate(options, clientVersion)
       IN  /\ options' = gated
           /\ IF system_mustConfirm(gated)
              THEN \E answer \in Answers :
                     /\ log' = log \o <<PromptEv(confirmationMessage(gated)), ReadEv(answer)>>
                     /\ IF IsAffirmative(answer)
                        THEN /\ pc' = "loop"
                             /\ idx' = 1
                             /\ pruneFuncs' = buildPruneFuncs(gated)
                             /\ UNCHANGED result
                        ELSE /\ pc' = "done"
                             /\ result' = NoErr
                             /\ UNCHANGED <<idx, pruneFuncs>>
              ELSE /\ pc' = "loop"
                   /\ idx' = 1
                   /\ pruneFuncs' = buildPruneFuncs(gated)
                   /\ UNCHANGED <<log, result>>
    /\ UNCHANGED <<cmd, args, clientVersion, helperDryRun, spaceReclaimed>>

\* runPrune, lines 197-206: one iteration of the loop over pruneFuncs
system_LoopStep ==
    /\ cmd = "system"
    /\ pc = "loop"
    /\ \E report \in Responses :
         LET s == pruneFn(pruneFuncs[idx], options, report)
         IN  IF stageFailed(s.ret)
             THEN /\ log' = Append(log, s.call)
                  /\ pc' = "done"
                  /\ result' = s.ret.err
                  /\ UNCHANGED <<idx, spaceReclaimed>>
             ELSE /\ spaceReclaimed' = spaceReclaimed + s.ret.spc
                  /\ log' = Append(log, s.call)
                              \o (IF s.ret.output # <<>> THEN <<PrintEv(s.ret.output)>> ELSE <<>>)
                  /\ idx' = idx + 1
                  /\ pc' = IF idx = Len(pruneFuncs) THEN "image" ELSE "loop"
                  /\ UNCHANGED result
    /\ UNCHANGED <<cmd, args, options, clientVersion, helperDryRun, pruneFuncs>>

\* runPrune, lines 208-215 (and 225-231 when build cache is not pruned)
system_ImagePrune ==
    /\ cmd = "system"
    /\ pc = "image"
    /\ \E report \in Responses :
         LET o == runImagePrune(options.all, options.dryRun, options.filter)
             r == image_report(o, report)
             call == CallEv("images", TRUE, o.dryRun, image_pruneFilters(o), report, r)
             total == IF r.spc > 0 THEN spaceReclaimed + r.spc ELSE spaceReclaimed
             printed == IF r.spc > 0 THEN <<PrintEv(r.output)>> ELSE <<>>
         IN  IF r.err # NoErr
             THEN /\ log' = Append(log, call)
                  /\ pc' = "done"
                  /\ result' = r.err
                  /\ UNCHANGED spaceReclaimed
             ELSE /\ spaceReclaimed' = total
                  /\ IF options.pruneBuildCache
                     THEN /\ log' = Append(log, call) \o printed
                          /\ pc' = "cache"
                          /\ UNCHANGED result
                     ELSE /\ log' = Append(log, call) \o printed
                                       \o <<system_summary(options, total)>>
                          /\ pc' = "done"
                          /\ result' = NoErr
    /\ UNCHANGED <<cmd, args, options, clientVersion, helperDryRun, idx, pruneFuncs>>

\* runPrune, lines 217-231
system_BuildCachePrune ==
    /\ cmd = "system"
    /\ pc = "cache"
    /\ \E report \in Responses :
         LET r == runBuildCachePrune(report)
             call == CallEv("buildcache", FALSE, FALSE, {}, report, r)
         IN  IF r.err # NoErr
             THEN /\ log' = Append(log, call)
                  /\ result' = r.err
                  /\ UNCHANGED spaceReclaimed
             ELSE /\ spaceReclaimed' = spaceReclaimed + r.spc
                  /\ log' = Append(log, call)
                              \o <<system_summary(options, spaceReclaimed + r.spc)>>
                  /\ result' = NoErr
    /\ pc' = "done"
    /\ UNCHANGED <<cmd, args, options, clientVersion, helperDryRun, idx, pruneFuncs>>

----------------------------------------------------------------------------

(* package prune: the exported per-kind entry points, which forward dryRun *)

ExportedFns == {"RunContainerPrune", "RunVolumePrune", "RunImagePrune", "RunNetworkPrune"}

\* RunContainerPrune: the options the container adapter runs with
RunContainerPrune(dryRun, filter) == container_RunPrune(dryRun, filter)

\* RunVolumePrune
RunVolumePrune(dryRun, filter) == volume_RunPrune(dryRun, filter)

\* RunImagePrune
RunImagePrune(all, dryRun, filter) == image_RunPrune(all, dryRun, filter)

\* RunNetworkPrune
RunNetworkPrune(dryRun, filter) == network_RunPrune(dryRun, filter)

\* the remote call an exported entry point makes and what it returns for the reply
exportedFn(fn, in, report) ==
    CASE fn = "RunContainerPrune" ->
           LET o == RunContainerPrune(in.dryRun, in.filter)
               r == container_report(o, report)
           IN  [call |-> CallEv("containers", TRUE, o.dryRun, container_pruneFilters(o), report, r), ret |-> r]
      [] fn = "RunVolumePrune" ->
           LET o == RunVolumePrune(in.dryRun, in.filter)
               r == volume_report(o, report)
           IN  [call |-> CallEv("volumes", TRUE, o.dryRun, volume_pruneFilters(o), report, r), ret |-> r]
      [] fn = "RunImagePrune" ->
           LET o == RunImagePrune(in.all, in.dryRun, in.filter)
               r == image_report(o, report)
           IN  [call |-> CallEv("images", TRUE, o.dryRun, image_pruneFilters(o), report, r), ret |-> r]
      [] fn = "RunNetworkPrune" ->
           LET o == RunNetworkPrune(in.dryRun, in.filter)
               r == network_report(o, report)
           IN  [call |-> CallEv("networks", TRUE, o.dryRun, network_pruneFilters(o), report, r), ret |-> r]

\* one call of an exported entry point: a forced adapter run, nothing printed
prune_Run ==
    /\ cmd \in ExportedFns
    /\ pc = "start"
    /\ \E report \in Responses :
         LET s == exportedFn(cmd, options, report)
         IN  /\ log' = Append(log, s.call)
             /\ result' = s.ret.err
             /\ spaceReclaimed' = s.ret.spc
    /\ pc' = "done"
    /\ UNCHANGED <<cmd, args, options, clientVersion, helperDryRun, idx, pruneFuncs>>

----------------------------------------------------------------------------

\* newPruneCommand: pruneBuildCache starts true and no flag changes it
InitSystem ==
    /\ cmd = "system"
    /\ args \in Args
    /\ options \in [force : BOOLEAN, all : BOOLEAN, pruneBuildCache : {TRUE},
                    pruneVolumes : BOOLEAN, filter : Filters, dryRun : BOOLEAN]
    /\ clientVersion \in Versions

\* volume and network NewPruneCommand
InitResource ==
    /\ cmd \in ResourceCmds
    /\ args \in Args
    /\ options \in [force : BOOLEAN, dryRun : BOOLEAN, filter : Filters]
    /\ clientVersion \in Versions

\* the parameters of the exported entry points of package prune
InitExported ==
    /\ cmd \in ExportedFns
    /\ args = <<>>
    /\ options \in [all : IF cmd = "RunImagePrune" THEN BOOLEAN ELSE {FALSE},
                    dryRun : BOOLEAN, filter : Filters]
    /\ clientVersion \in Versions

Init ==
    /\ (InitResource \/ InitSystem \/ InitExported)
    /\ helperDryRun \in HelperOutcomes
    /\ pc = "start"
    /\ idx = 0
    /\ pruneFuncs = <<>>
    /\ spaceReclaimed = 0
    /\ result = "pending"
    /\ log = <<>>

Next ==
    \/ command_UsageError
    \/ resource_Confirm
    \/ volume_Call
    \/ network_Call
    \/ system_Confirm
    \/ system_LoopStep
    \/ system_ImagePrune
    \/ system_BuildCachePrune
    \/ prune_Run

Spec == Init /\ [][Next]_vars

----------------------------------------------------------------------------
(* Observations on the log *)

IsCall(e) == e.ev = "call"
Calls == SelectSeq(log, IsCall)
Endpoints == [i \in 1..Len(Calls) |-> Calls[i].endpoint]
EndpointSet == { Calls[i].endpoint : i \in 1..Len(Calls) }
EventIdx(kind) == { i \in 1..Len(log) : log[i].ev = kind }

\* a line was read from standard input and it was not an affirmative answer
Declined == \E i \in EventIdx("read") : ~IsAffirmative(log[i].text)

Succeeded == pc = "done" /\ result = NoErr /\ ~Declined

\* the stages the documented pipeline of system prune has, in order
ExpectedPipeline ==
    << "containers", "networks" >>
    \o (IF options.pruneVolumes THEN << "volumes" >> ELSE <<>>)
    \o << "images" >>
    \o (IF options.pruneBuildCache THEN << "buildcache" >> ELSE <<>>)

FirstCallOf(ep) ==
    Calls[CHOOSE i \in 1..Len(Calls) :
            /\ Calls[i].endpoint = ep
            /\ \A j \in 1..(i - 1) : Calls[j].endpoint # ep]

RECURSIVE StageSum(_)
StageSum(stages) ==
    IF stages = <<>> THEN 0
    ELSE FirstCallOf(Head(stages)).bytes + StageSum(Tail(stages))

KindHeader(ep, dry) ==
    CASE ep = "containers" -> IF dry THEN "Will Delete Containers:" ELSE "Deleted Containers:"
      [] ep = "networks" -> IF dry THEN "Will Delete Networks:" ELSE "Deleted Networks:"
      [] ep = "volumes" -> IF dry THEN "Will Delete Volumes:" ELSE "Deleted Volumes:"
      [] ep = "images" -> IF dry THEN "Will Delete Images:" ELSE "Deleted Images:"
      [] OTHER -> "?"

AdapterEndpoints == {"containers", "networks", "volumes", "images"}

\* the warnings a confirmation message lists
Listed(msg) == { msg[i][2] : i \in { j \in 1..Len(msg) : msg[j][1] = "        - " } }

CategoryOf(w) ==
    CASE w = "all stopped containers" -> "containers"
      [] w = "all networks not used by at least one container" -> "networks"
      [] w = "all volumes not used by at least one container" -> "volumes"
      [] w = "all images without at least one container associated to them" -> "images"
      [] w = "all dangling images" -> "images"
      [] w = "all build cache" -> "buildcache"
      [] OTHER -> "?"

----------------------------------------------------------------------------
(* Claims *)

\* C1: in a dry run of system prune every remote prune call carries the
\* dryRun=true marker.
C1_DryRunMarkerOnEveryCall ==
    (cmd = "system" /\ options.dryRun) =>
        \A i \in 1..Len(Calls) :
            Calls[i].hasFilters /\ <<"dryRun", "true">> \in Calls[i].filters

\* C2: a system prune that passes the confirmation gate and meets no error has
\* called exactly containers, networks, [volumes], images, [build cache], in
\* that order, each once.
C2_ExactStageSequence ==
    (cmd = "system" /\ Succeeded) => Endpoints = ExpectedPipeline

\* C3: in system prune a remote call that returns an error is the last thing
\* the run does: no later remote call, the run returns that error, no summary
\* line; a failed network stage means volumes, images and build cache are
\* never called.
C3_ErrorAbortsPipeline ==
    cmd = "system" =>
        \A i \in 1..Len(log) :
            (log[i].ev = "call" /\ log[i].resp.err # NoErr) =>
                /\ i = Len(log)
                /\ pc = "done"
                /\ result = log[i].resp.err
                /\ EventIdx("summary") = {}
                /\ log[i].endpoint = "networks" =>
                       EndpointSet \cap {"volumes", "images", "buildcache"} = {}

C3_Witness ==
    /\ cmd = "system"
    /\ pc = "done"
    /\ Len(Calls) >= 3
    /\ Calls[Len(Calls)].endpoint = "volumes"
    /\ Calls[Len(Calls)].resp.err = "connection refused"
    /\ spaceReclaimed > 0

\* C4: with force=false and dryRun=false the answer is read before any remote
\* call; a non-affirmative answer means no remote call, zero reclaimed bytes and
\* no error; after "y" or "Y" a per-resource command calls its endpoint exactly
\* once.
C4_ConfirmationGate ==
    (cmd \in CliCmds /\ ~options.force /\ ~options.dryRun) =>
        /\ (pc \notin {"start", "done"} \/ Calls # <<>>) =>
              /\ Len(log) >= 2
              /\ log[1].ev = "prompt"
              /\ log[2].ev = "read"
              /\ EventIdx("read") = {2}
              /\ IsAffirmative(log[2].text)
        /\ Declined => (Calls = <<>> /\ pc = "done" /\ spaceReclaimed = 0 /\ result = NoErr)
        /\ ( /\ pc = "done"
             /\ cmd \in ResourceCmds
             /\ EventIdx("read") # {}
             /\ \A i \in EventIdx("read") : log[i].text \in { <<"y">>, <<"Y">> } )
              => Len(Calls) = 1

C4_Witness ==
    /\ cmd = "volume"
    /\ ~options.force /\ ~options.dryRun
    /\ pc = "done"
    /\ Len(log) >= 3
    /\ log[2].text = <<"Y">>
    /\ Len(Calls) = 1

\* C5: with dryRun=true no prompt is shown and standard input is not read,
\* whatever force is; a per-resource command (or exported per-kind entry point)
\* whose arguments are accepted goes straight to its remote call, sent with the
\* dryRun=true marker, and a non-empty report is headed "Will Delete <Kind>:".
C5_DryRunSkipsPrompt ==
    options.dryRun =>
        /\ EventIdx("prompt") = {} /\ EventIdx("read") = {}
        /\ (cmd \in ResourceCmds \cup ExportedFns /\ pc = "done" /\ args = <<>>) =>
              /\ Len(Calls) = 1
              /\ log[1].ev = "call"
              /\ <<"dryRun", "true">> \in log[1].filters
              /\ log[1].text # <<>> => log[1].text[1] = KindHeader(log[1].endpoint, TRUE)
              /\ \A i \in EventIdx("print") :
                    /\ log[i].text # <<>>
                    /\ log[i].text[1] = KindHeader(log[1].endpoint, TRUE)

C5_Witness ==
    /\ cmd = "volume"
    /\ options.dryRun /\ ~options.force
    /\ pc = "done"
    /\ \E i \in EventIdx("print") : log[i].text[1] = "Will Delete Volumes:"

\* C6 as stated: every adapter (container, volume, network, image), on a reply
\* with a non-empty list of deleted identifiers and a byte count N, returns
\* reclaimed = N and the text "Deleted <Kind>:" followed by the identifiers in
\* the reply's order.  Stated for the adapter runs that are not dry runs.
C6_AdapterReturnsReclaimed ==
    \A i \in 1..Len(Calls) :
        LET c == Calls[i] IN
        ( /\ c.endpoint \in AdapterEndpoints
          /\ ~c.dry
          /\ c.resp.err = NoErr
          /\ c.resp.deleted # <<>> )
        =>  /\ c.bytes = c.resp.spaceReclaimed
            /\ c.text = <<KindHeader(c.endpoint, FALSE)>> \o c.resp.deleted

\* C6 amended: on such a reply the container, volume and image adapters return
\* reclaimed = N and the network adapter returns reclaimed = 0; the text is the
\* header "Deleted <Kind>:" ("Will Delete <Kind>:" when the adapter runs with
\* dryRun=true) followed by the identifiers in the reply's order.
C6_AdapterReport ==
    \A i \in 1..Len(Calls) :
        LET c == Calls[i] IN
        ( /\ c.endpoint \in AdapterEndpoints
          /\ c.resp.err = NoErr
          /\ c.resp.deleted # <<>> )
        =>  /\ c.bytes = IF c.endpoint = "networks" THEN 0 ELSE c.resp.spaceReclaimed
            /\ c.label = NoErr
            /\ c.text = <<KindHeader(c.endpoint, c.dry)>> \o c.resp.deleted

C6_Witness ==
    /\ cmd = "volume"
    /\ pc = "done"
    /\ Len(Calls) = 1
    /\ Calls[1].resp.deleted = DeletedIds
    /\ Len(Calls[1].resp.deleted) >= 2
    /\ Calls[1].bytes = SimpleSpaceReclaimed
    /\ Calls[1].text = <<"Deleted Volumes:">> \o DeletedIds

\* C7: when the remote call of a per-resource adapter fails, the adapter returns
\* that error, zero reclaimed bytes and empty text; the per-resource command
\* prints neither a report nor a summary line and makes no second call.
C7_ErrorSurfacesUnmodified ==
    /\ \A i \in 1..Len(Calls) :
          (Calls[i].endpoint \in AdapterEndpoints /\ Calls[i].resp.err # NoErr) =>
              /\ Calls[i].label = Calls[i].resp.err
              /\ Calls[i].bytes = 0
              /\ Calls[i].text = <<>>
    /\ (cmd \in ResourceCmds /\ Len(Calls) > 0 /\ Calls[1].resp.err # NoErr) =>
          /\ pc = "done"
          /\ result = Calls[1].resp.err
          /\ Len(Calls) = 1
          /\ EventIdx("print") = {} /\ EventIdx("summary") = {}

C7_Witness ==
    /\ cmd = "volume"
    /\ options.force
    /\ pc = "done"
    /\ Len(Calls) = 1
    /\ result = "error pruning volumes"

\* C8: with an API version below 1.31 system prune never calls the build-cache
\* endpoint and its confirmation message has no "all build cache" line; with
\* 1.31 or higher a successful run calls the build-cache endpoint.
C8_BuildCacheVersionGate ==
    cmd = "system" =>
        LET before131 == \/ clientVersion[1] < 1
                         \/ clientVersion[1] = 1 /\ clientVersion[2] < 31
        IN  /\ before131 =>
                  /\ "buildcache" \notin EndpointSet
                  /\ \A i \in EventIdx("prompt") : "all build cache" \notin Listed(log[i].text)
            /\ (~before131 /\ Succeeded) => "buildcache" \in EndpointSet

C8_Witness ==
    /\ cmd = "system"
    /\ clientVersion = <<1, 4>>
    /\ EventIdx("prompt") # {}
    /\ Succeeded
    /\ "images" \in EndpointSet

\* C9: system prune prints its summary line once, only after every stage
\* succeeded, and the total is the sum of the stages' reclaimed byte counts,
\* each stage counted once; the label is "Estimated reclaimable space:" iff
\* dryRun.
C9_SummaryIsSumOfStages ==
    cmd = "system" =>
        /\ EventIdx("summary") # {} => Succeeded
        /\ Succeeded =>
              /\ EventIdx("summary") = {Len(log)}
              /\ log[Len(log)].label =
                    (IF options.dryRun THEN "Estimated reclaimable space:"
                                       ELSE "Total reclaimed space:")
              /\ log[Len(log)].bytes = StageSum(ExpectedPipeline)

\* C10: the confirmation message of system prune is shown at most once, before
\* any remote call, and lists exactly the categories a successful run calls:
\* containers and networks always, volumes iff the volume stage runs, one image
\* line chosen by `all', build cache iff the build-cache stage runs.
C10_MessageMatchesStages ==
    cmd = "system" =>
        /\ EventIdx("prompt") \subseteq {1}
        /\ \A i \in EventIdx("prompt") :
              LET W == Listed(log[i].text) IN
              /\ Cardinality(W) = Len(log[i].text) - 2
              /\ "all stopped containers" \in W
              /\ "all networks not used by at least one container" \in W
              /\ ("all images without at least one container associated to them" \in W)
                    <=> options.all
              /\ ("all dangling images" \in W) <=> ~options.all
              /\ Succeeded => { CategoryOf(w) : w \in W } = EndpointSet

C10_Witness ==
    /\ cmd = "system"
    /\ EventIdx("prompt") = {1}
    /\ Succeeded
    /\ options.all
    /\ {"volumes", "buildcache"} \subseteq EndpointSet

====
